---- MODULE Spec2Model ----
(***************************************************************************)
(* A model of scripts/scale-font.py: the font scaler of the redditsans     *)
(* repository.  A font is a function from table tags to tables, as a       *)
(* fontTools TTFont is; ('CFF ' in font) is ("CFF" \in DOMAIN font) and     *)
(* hasattr(obj, 'f') is ("f" \in DOMAIN obj).  None is the value None.      *)
(*                                                                         *)
(* A scale factor is a pair <<num, den>> standing for the float num/den.    *)
(* The factors and the integers of the model are chosen so that the         *)
(* IEEE-double product x * scale_factor truncates as the exact rational     *)
(* does (see Scales).                                                       *)
(***************************************************************************)
EXTENDS Integers, Sequences, FiniteSets, TLC

VARIABLES
    font_files,  \* main: the sorted list of font paths found (batch mode)
    disk,        \* the file system: path -> stored font, Corrupt, or Missing
    args,        \* the parsed command line
    idx,         \* main: position of the batch loop in font_files
    pc,          \* the position of control
    font,        \* scale_font: the TTFont being processed
    cursor,      \* position of the loop in progress inside a component
    failures,    \* the paths for which "Error processing" was printed, in order
    phases,      \* history: the steps scale_font completed for the current file
    orig,        \* history: the font as it was loaded
    calls,       \* history: the number of setName calls made per name record
    outcome      \* history: the files attempted, in order, each "saved" or "raised"

vars ==
    <<font_files, disk, args, idx, pc, font, cursor, failures, phases, orig, calls, outcome>>

\* Python's None.  Every object of the model is a record, and so is None.
None == [isNone |-> TRUE]

(***************************************************************************)
(* Bounds of the model.                                                    *)
(***************************************************************************)
MaxCoord == 3
MaxFiles == 3
MaxText == 4

(***************************************************************************)
(* Arithmetic.                                                             *)
(***************************************************************************)
Abs(x) == IF x < 0 THEN -x ELSE x

SetMin(S) == CHOOSE m \in S : \A x \in S : m <= x

SetMax(S) == CHOOSE m \in S : \A x \in S : m >= x

\* Python's int() of the float a/b, b > 0: truncation toward zero.
TruncDiv(a, b) == IF a >= 0 THEN a \div b ELSE -((-a) \div b)

\* A scale factor that rounds to nearest instead of truncating.
ScaleIntNearest(v, scale_factor) ==
    IF v >= 0
    THEN (2 * v * scale_factor[1] + scale_factor[2]) \div (2 * scale_factor[2])
    ELSE -((2 * (-v) * scale_factor[1] + scale_factor[2]) \div (2 * scale_factor[2]))

\* int(v * scale_factor)
ScaleInt(v, scale_factor) == TruncDiv(v * scale_factor[1], scale_factor[2])

\* The scale factors tried.  1.08 is the default of --scale.  For each of
\* them int(x * (num/den)) computed in doubles equals TruncDiv(x*num, den)
\* for every |x| <= 60.
Scales == {<<1, 1>>, <<27, 25>>, <<5, 4>>, <<3, 2>>, <<2, 1>>, <<4, 5>>, <<1, 2>>, <<1, 4>>}

\* 1 / scale_factor.  For the factors of InvertibleScales the double 1/s
\* multiplies and truncates as the exact rational den/num does.
Inverse(scale_factor) == <<scale_factor[2], scale_factor[1]>>

InvertibleScales == Scales \ {<<27, 25>>}

AtLeastOne(scale_factor) == scale_factor[1] >= scale_factor[2]

\* v is a nearest integer to o * scale_factor (either rule for ties).
IsNearest(v, o, scale_factor) ==
    2 * Abs(v * scale_factor[2] - o * scale_factor[1]) <= scale_factor[2]

(***************************************************************************)
(* Glyphs of the glyf table.                                               *)
(***************************************************************************)
isComposite(glyph) == glyph.numberOfContours = -1

\* A mis-typed comprehension: x used for both members of the pair.
ScaleCoordsXX(coords, scale_factor) ==
    [i \in DOMAIN coords |->
        <<ScaleInt(coords[i][1], scale_factor), ScaleInt(coords[i][1], scale_factor)>>]

\* [(int(x * scale_factor), int(y * scale_factor)) for x, y in coords]
ScaleCoords(coords, scale_factor) ==
    [i \in DOMAIN coords |->
        <<ScaleInt(coords[i][1], scale_factor), ScaleInt(coords[i][2], scale_factor)>>]

\* if hasattr(obj, f): obj.f = int(obj.f * scale_factor)
ScaleAttr(obj, f, scale_factor) ==
    IF f \in DOMAIN obj THEN [obj EXCEPT ![f] = ScaleInt(@, scale_factor)] ELSE obj

ScaleComponent(component, scale_factor) ==
    ScaleAttr(ScaleAttr(component, "x", scale_factor), "y", scale_factor)

\* The first half of scale_glyph_ttf: component offsets or coordinates.
ScaleGlyphOutline(glyph, scale_factor) ==
    IF isComposite(glyph)
    THEN [glyph EXCEPT !.components =
             [i \in DOMAIN @ |-> ScaleComponent(@[i], scale_factor)]]
    ELSE IF glyph.numberOfContours > 0
    THEN [glyph EXCEPT !.coordinates = ScaleCoords(@, scale_factor)]
    ELSE glyph

\* The second half of scale_glyph_ttf: "Scale bounding box".
ScaleGlyphBBox(glyph, scale_factor) ==
    IF "xMin" \in DOMAIN glyph /\ glyph.numberOfContours # 0
    THEN [glyph EXCEPT !.xMin = ScaleInt(@, scale_factor),
                       !.yMin = ScaleInt(@, scale_factor),
                       !.xMax = ScaleInt(@, scale_factor),
                       !.yMax = ScaleInt(@, scale_factor)]
    ELSE glyph

scale_glyph_ttf(glyph, scale_factor) ==
    ScaleGlyphBBox(ScaleGlyphOutline(glyph, scale_factor), scale_factor)

\* The bounds of a coordinate list, as the font library computes them.
CoordBounds(coords) ==
    [xMin |-> SetMin({coords[i][1] : i \in DOMAIN coords}),
     yMin |-> SetMin({coords[i][2] : i \in DOMAIN coords}),
     xMax |-> SetMax({coords[i][1] : i \in DOMAIN coords}),
     yMax |-> SetMax({coords[i][2] : i \in DOMAIN coords})]

\* The bounds of a composite: its components' boxes placed at their offsets.
ComponentBounds(glyf, components) ==
    [xMin |-> SetMin({glyf[components[i].glyphName].xMin + components[i].x : i \in DOMAIN components}),
     yMin |-> SetMin({glyf[components[i].glyphName].yMin + components[i].y : i \in DOMAIN components}),
     xMax |-> SetMax({glyf[components[i].glyphName].xMax + components[i].x : i \in DOMAIN components}),
     yMax |-> SetMax({glyf[components[i].glyphName].yMax + components[i].y : i \in DOMAIN components})]

BBox(glyph) == [xMin |-> glyph.xMin, yMin |-> glyph.yMin, xMax |-> glyph.xMax, yMax |-> glyph.yMax]

EmptyGlyph == [numberOfContours |-> 0]

SimpleGlyph(coords) ==
    [numberOfContours |-> 1, coordinates |-> coords] @@ CoordBounds(coords)

CompositeGlyph(glyf, components) ==
    [numberOfContours |-> -1, components |-> components] @@ ComponentBounds(glyf, components)

\* glyf.keys(): the glyph order of the fonts of the model.
GlyphOrder == <<"space", "a", "agrave">>

\* A glyf table: an empty glyph, a simple glyph and a composite of it.
GlyfTable(coords, off) ==
    LET base == [space |-> EmptyGlyph, a |-> SimpleGlyph(coords)]
    IN  base @@ [agrave |-> CompositeGlyph(base, <<[glyphName |-> "a", x |-> off[1], y |-> off[2]]>>)]

(***************************************************************************)
(* The GPOS table.  A value record and an anchor are objects with optional *)
(* attributes; a slot holds an object or None.                             *)
(***************************************************************************)
hasattr(obj, f) == obj # None /\ f \in DOMAIN obj

\* Python truth of a slot: None is false, an object is true.
Truthy(x) == x # None

\* The slot of a loop whose body raised AttributeError.
AttributeError == [raised |-> "AttributeError"]

\* if hasattr(value_record, f) and value_record.f: ...   (0 is false)
ScaleValueField(value_record, f, scale_factor) ==
    IF hasattr(value_record, f) /\ value_record[f] # 0
    THEN [value_record EXCEPT ![f] = ScaleInt(@, scale_factor)]
    ELSE value_record

scale_value_record(value_record, scale_factor) ==
    ScaleValueField(
        ScaleValueField(
            ScaleValueField(
                ScaleValueField(value_record, "XPlacement", scale_factor),
                "YPlacement", scale_factor),
            "XAdvance", scale_factor),
        "YAdvance", scale_factor)

scale_anchor(anchor, scale_factor) ==
    ScaleAttr(ScaleAttr(anchor, "XCoordinate", scale_factor), "YCoordinate", scale_factor)

\* if anchor: scale_anchor(anchor, scale_factor)
ScaleAnchorSlot(anchor, scale_factor) ==
    IF Truthy(anchor) THEN scale_anchor(anchor, scale_factor) ELSE anchor

\* if hasattr(rec, 'Value1') and rec.Value1: scale_value_record(rec.Value1, ...)
\* and the same for Value2.
ScaleValueSlot(rec, f, scale_factor) ==
    IF hasattr(rec, f) /\ Truthy(rec[f])
    THEN [rec EXCEPT ![f] = scale_value_record(@, scale_factor)]
    ELSE rec

ScaleValuePair(rec, scale_factor) ==
    ScaleValueSlot(ScaleValueSlot(rec, "Value1", scale_factor), "Value2", scale_factor)

\* The pair-set loop body without its "if pair_set:" guard: reading
\* PairValueRecord of None raises AttributeError.
ScalePairSetUnguarded(pair_set, scale_factor) ==
    IF pair_set = None
    THEN AttributeError
    ELSE [pair_set EXCEPT !.PairValueRecord =
             [i \in DOMAIN @ |-> ScaleValuePair(@[i], scale_factor)]]

\* if pair_set: for pair_value in pair_set.PairValueRecord: ...
ScalePairSet(pair_set, scale_factor) ==
    IF Truthy(pair_set)
    THEN [pair_set EXCEPT !.PairValueRecord =
             [i \in DOMAIN @ |-> ScaleValuePair(@[i], scale_factor)]]
    ELSE pair_set

ScaleAnchorList(anchors, scale_factor) ==
    [i \in DOMAIN anchors |-> ScaleAnchorSlot(anchors[i], scale_factor)]

\* The blocks of scale_gpos_subtable, in the order of the code.
ScaleSinglePos(subtable, scale_factor) ==
    IF hasattr(subtable, "SinglePos")
    THEN [subtable EXCEPT !.SinglePos =
             [i \in DOMAIN @ |-> scale_value_record(@[i], scale_factor)]]
    ELSE subtable

ScalePairSets(subtable, scale_factor) ==
    IF hasattr(subtable, "PairSet")
    THEN [subtable EXCEPT !.PairSet = [i \in DOMAIN @ |-> ScalePairSet(@[i], scale_factor)]]
    ELSE subtable

ScaleClass1Records(subtable, scale_factor) ==
    IF hasattr(subtable, "Class1Record")
    THEN [subtable EXCEPT !.Class1Record =
             [i \in DOMAIN @ |->
                 [@[i] EXCEPT !.Class2Record =
                     [j \in DOMAIN @ |-> ScaleValuePair(@[j], scale_factor)]]]]
    ELSE subtable

ScaleBaseArray(subtable, scale_factor) ==
    IF hasattr(subtable, "BaseArray")
    THEN [subtable EXCEPT !.BaseArray.BaseRecord =
             [i \in DOMAIN @ |->
                 [@[i] EXCEPT !.BaseAnchor = ScaleAnchorList(@, scale_factor)]]]
    ELSE subtable

ScaleMarkArray(subtable, scale_factor) ==
    IF hasattr(subtable, "MarkArray")
    THEN [subtable EXCEPT !.MarkArray.MarkRecord =
             [i \in DOMAIN @ |->
                 [@[i] EXCEPT !.MarkAnchor = ScaleAnchorSlot(@, scale_factor)]]]
    ELSE subtable

ScaleMark2Array(subtable, scale_factor) ==
    IF hasattr(subtable, "Mark2Array")
    THEN [subtable EXCEPT !.Mark2Array.Mark2Record =
             [i \in DOMAIN @ |->
                 [@[i] EXCEPT !.Mark2Anchor = ScaleAnchorList(@, scale_factor)]]]
    ELSE subtable

ScaleLigatureArray(subtable, scale_factor) ==
    IF hasattr(subtable, "LigatureArray")
    THEN [subtable EXCEPT !.LigatureArray.LigatureAttach =
             [i \in DOMAIN @ |->
                 [@[i] EXCEPT !.ComponentRecord =
                     [j \in DOMAIN @ |->
                         [@[j] EXCEPT !.LigatureAnchor = ScaleAnchorList(@, scale_factor)]]]]]
    ELSE subtable

scale_gpos_subtable(subtable, scale_factor) ==
    ScaleLigatureArray(
        ScaleMark2Array(
            ScaleMarkArray(
                ScaleBaseArray(
                    ScaleClass1Records(
                        ScalePairSets(
                            ScaleSinglePos(subtable, scale_factor),
                            scale_factor),
                        scale_factor),
                    scale_factor),
                scale_factor),
            scale_factor),
        scale_factor)

\* An exception left scale_gpos_subtable.
SubtableRaised(subtable) ==
    hasattr(subtable, "PairSet")
        /\ \E i \in DOMAIN subtable.PairSet : subtable.PairSet[i] = AttributeError

scale_gpos_values(gpos_table, scale_factor) ==
    IF ~hasattr(gpos_table, "LookupList") \/ gpos_table.LookupList = None
    THEN gpos_table
    ELSE [gpos_table EXCEPT !.LookupList.Lookup =
             [l \in DOMAIN @ |->
                 [@[l] EXCEPT !.SubTable =
                     [k \in DOMAIN @ |-> scale_gpos_subtable(@[k], scale_factor)]]]]

GposRaised(gpos_table) ==
    hasattr(gpos_table, "LookupList") /\ gpos_table.LookupList # None
        /\ \E l \in DOMAIN gpos_table.LookupList.Lookup :
              \E k \in DOMAIN gpos_table.LookupList.Lookup[l].SubTable :
                  SubtableRaised(gpos_table.LookupList.Lookup[l].SubTable[k])

(***************************************************************************)
(* Strings are sequences of characters.                                    *)
(***************************************************************************)
\* sub in text
Contains(text, sub) ==
    \E i \in 1..(Len(text) + 1) :
        i + Len(sub) - 1 <= Len(text) /\ SubSeq(text, i, i + Len(sub) - 1) = sub

RECURSIVE ReplaceNonEmpty(_, _, _)
ReplaceNonEmpty(text, old, new) ==
    IF Len(text) < Len(old)
    THEN text
    ELSE IF SubSeq(text, 1, Len(old)) = old
    THEN new \o ReplaceNonEmpty(SubSeq(text, Len(old) + 1, Len(text)), old, new)
    ELSE <<Head(text)>> \o ReplaceNonEmpty(Tail(text), old, new)

RECURSIVE Interleave(_, _)
Interleave(text, new) ==
    IF text = <<>> THEN new ELSE new \o <<Head(text)>> \o Interleave(Tail(text), new)

\* text.replace(old, new): every non-overlapping occurrence, left to right;
\* an empty old matches before every character and at the end.
Replace(text, old, new) ==
    IF old = <<>> THEN Interleave(text, new) ELSE ReplaceNonEmpty(text, old, new)

\* s.replace(" ", "")
StripSpaces(s) == SelectSeq(s, LAMBDA c : c # " ")

(***************************************************************************)
(* rename_font.                                                            *)
(***************************************************************************)
SameKey(r, nameID, platformID, platEncID, langID) ==
    /\ r.nameID = nameID
    /\ r.platformID = platformID
    /\ r.platEncID = platEncID
    /\ r.langID = langID

\* The font library's name_table.setName: the first record with the key
\* gets the string; a record is appended when there is none.
setName(names, string, nameID, platformID, platEncID, langID) ==
    LET hits == {j \in DOMAIN names : SameKey(names[j], nameID, platformID, platEncID, langID)}
    IN  IF hits # {}
        THEN [names EXCEPT ![SetMin(hits)].string = string, ![SetMin(hits)].decodable = TRUE]
        ELSE Append(names, [nameID |-> nameID, platformID |-> platformID,
                            platEncID |-> platEncID, langID |-> langID,
                            string |-> string, decodable |-> TRUE])

\* The second rule writing the spaced new name instead of the stripped one.
SecondRuleTextSpaced(text, old_family, new_family) ==
    Replace(text, StripSpaces(old_family), new_family)

\* text.replace(old_nospace, new_nospace)
SecondRuleText(text, old_family, new_family) ==
    Replace(text, StripSpaces(old_family), StripSpaces(new_family))

FirstRule(text, old_family) == Contains(text, old_family)

SecondRule(text, old_family) ==
    Contains(text, StripSpaces(old_family)) /\ ~Contains(text, old_family)

\* setName(new_text, record.nameID, record.platformID, record.platEncID,
\* record.langID)
SetRecordText(names, record, new_text) ==
    setName(names, new_text, record.nameID, record.platformID, record.platEncID, record.langID)

ApplyFirstRule(names, record, text, old_family, new_family) ==
    IF FirstRule(text, old_family)
    THEN SetRecordText(names, record, Replace(text, old_family, new_family))
    ELSE names

ApplySecondRule(names, record, text, old_family, new_family) ==
    IF SecondRule(text, old_family)
    THEN SetRecordText(names, record, SecondRuleText(text, old_family, new_family))
    ELSE names

\* One iteration of "for record in name_table.names": the names after it.
rename_record(names, record, old_family, new_family) ==
    IF ~record.decodable
    THEN names
    ELSE ApplySecondRule(
             ApplyFirstRule(names, record, record.string, old_family, new_family),
             record, record.string, old_family, new_family)

\* The number of setName calls of one iteration.
SetNameCalls(record, old_family) ==
    IF ~record.decodable
    THEN 0
    ELSE (IF FirstRule(record.string, old_family) THEN 1 ELSE 0)
         + (IF SecondRule(record.string, old_family) THEN 1 ELSE 0)

\* for i, name in enumerate(cff_font.fontNames): ...
RenameFontNames(cff, old_family, new_family) ==
    IF hasattr(cff.cff, "fontNames")
    THEN [cff EXCEPT !.cff.fontNames =
             [i \in DOMAIN @ |->
                 IF Contains(@[i], StripSpaces(old_family))
                 THEN Replace(@[i], StripSpaces(old_family), StripSpaces(new_family))
                 ELSE @[i]]]
    ELSE cff

\* if hasattr(top_dict, f): if old_family in top_dict.f: top_dict.f = ...
RenameTopDictField(cff, f, old_family, new_family) ==
    IF hasattr(cff.cff.topDictIndex[1], f) /\ Contains(cff.cff.topDictIndex[1][f], old_family)
    THEN [cff EXCEPT !.cff.topDictIndex[1][f] = Replace(@, old_family, new_family)]
    ELSE cff

\* The "Update CFF table" block of rename_font.
rename_cff(cff, old_family, new_family) ==
    RenameTopDictField(
        RenameTopDictField(
            RenameFontNames(cff, old_family, new_family),
            "FamilyName", old_family, new_family),
        "FullName", old_family, new_family)

RECURSIVE RenameFrom(_, _, _, _)
\* The loop over name_table.names from position i on.  The loop walks the
\* list itself, so a record appended by setName would be visited too.
RenameFrom(names, i, old_family, new_family) ==
    IF i > Len(names)
    THEN names
    ELSE RenameFrom(rename_record(names, names[i], old_family, new_family),
                    i + 1, old_family, new_family)

RenameCFFTable(f, old_family, new_family) ==
    IF "CFF" \in DOMAIN f
    THEN [f EXCEPT !["CFF"] = rename_cff(@, old_family, new_family)]
    ELSE f

rename_font(f, old_family, new_family) ==
    IF "name" \notin DOMAIN f
    THEN f
    ELSE RenameCFFTable(
             [f EXCEPT !["name"].names = RenameFrom(@, 1, old_family, new_family)],
             old_family, new_family)

(***************************************************************************)
(* scale_font, step by step.  A step yields the font after it, or Raise    *)
(* when the code raises (KeyError for a missing table, AttributeError for  *)
(* a missing attribute).                                                   *)
(***************************************************************************)
Raise == [raised |-> "Exception"]

HeadFields == {"xMin", "yMin", "xMax", "yMax"}

HheaFields ==
    {"ascent", "descent", "lineGap", "advanceWidthMax", "minLeftSideBearing",
     "minRightSideBearing", "xMaxExtent"}

OS2Fields ==
    {"sTypoAscender", "sTypoDescender", "sTypoLineGap", "usWinAscent", "usWinDescent",
     "ySubscriptXSize", "ySubscriptYSize", "ySubscriptXOffset", "ySubscriptYOffset",
     "ySuperscriptXSize", "ySuperscriptYSize", "ySuperscriptXOffset", "ySuperscriptYOffset",
     "yStrikeoutSize", "yStrikeoutPosition", "sxHeight", "sCapHeight", "xAvgCharWidth"}

VheaFields ==
    {"ascent", "descent", "lineGap", "advanceHeightMax", "minTopSideBearing",
     "minBottomSideBearing", "yMaxExtent"}

PostFields == {"underlinePosition", "underlineThickness"}

\* The header fields scale_font rewrites, per table.
ScaledFields ==
    [head |-> HeadFields, hhea |-> HheaFields, vhea |-> VheaFields, post |-> PostFields]
        @@ ("OS/2" :> OS2Fields)

\* table.f = int(table.f * scale_factor) for the fields named, which exist.
ScaleFields(table, fields, scale_factor) ==
    [f \in DOMAIN table |->
        IF f \in fields THEN ScaleInt(table[f], scale_factor) ELSE table[f]]

\* metrics[glyph_name] = (int(a * scale_factor), int(b * scale_factor))
ScaleMetricPairs(mtx, scale_factor) ==
    [mtx EXCEPT !.metrics =
        [g \in DOMAIN @ |-> <<ScaleInt(@[g][1], scale_factor), ScaleInt(@[g][2], scale_factor)>>]]

\* A font with table tag rewritten by ScaleFields.
WithScaledTable(f, tag, scale_factor) ==
    [f EXCEPT ![tag] = ScaleFields(@, ScaledFields[tag], scale_factor)]

\* Reading an attribute of font[tag] that the table does not have raises.
TableComplete(f, tag) == ScaledFields[tag] \subseteq DOMAIN f[tag]

\* The body of "if tag in font:" raises on a missing attribute.
OptionalTableRaises(f, tag) == tag \in DOMAIN f /\ ~TableComplete(f, tag)

ScaleOptionalTable(f, tag, scale_factor) ==
    IF tag \in DOMAIN f /\ TableComplete(f, tag)
    THEN WithScaledTable(f, tag, scale_factor)
    ELSE f

\* The CFF branch: every charstring is drawn through a scaling transform
\* and re-encoded by the font library's pens, which round to nearest.
scale_cff_glyphs(f, scale_factor) ==
    IF "CFF" \notin DOMAIN f
    THEN f
    ELSE [f EXCEPT !["CFF"].cff.topDictIndex[1].CharStrings =
             [g \in DOMAIN @ |->
                 [i \in DOMAIN @[g] |->
                     <<ScaleIntNearest(@[g][i][1], scale_factor),
                       ScaleIntNearest(@[g][i][2], scale_factor)>>]]]

\* font['glyf'] raises KeyError when the font has neither CFF nor glyf.
OutlinesRaise(f) == "CFF" \notin DOMAIN f /\ "glyf" \notin DOMAIN f

\* "Scale glyphs based on font type"
ScaleOutlines(f, scale_factor) ==
    IF "CFF" \in DOMAIN f
    THEN scale_cff_glyphs(f, scale_factor)
    ELSE IF OutlinesRaise(f)
    THEN Raise
    ELSE [f EXCEPT !["glyf"] =
             [g \in DOMAIN @ |->
                 IF @[g].numberOfContours # 0
                 THEN scale_glyph_ttf(@[g], scale_factor)
                 ELSE @[g]]]

\* if 'vmtx' in font: ...
ScaleVmtx(f, scale_factor) ==
    IF "vmtx" \in DOMAIN f
    THEN [f EXCEPT !["vmtx"] = ScaleMetricPairs(@, scale_factor)]
    ELSE f

\* hmtx, vmtx, head, hhea, OS/2, vhea and post, in the order of the code.
ScaleMetrics(f, scale_factor) ==
    IF \/ ~({"hmtx", "head", "hhea"} \subseteq DOMAIN f)
       \/ ~TableComplete(f, "head")
       \/ ~TableComplete(f, "hhea")
       \/ OptionalTableRaises(f, "OS/2")
       \/ OptionalTableRaises(f, "vhea")
       \/ OptionalTableRaises(f, "post")
    THEN Raise
    ELSE ScaleOptionalTable(
             ScaleOptionalTable(
                 ScaleOptionalTable(
                     WithScaledTable(
                         WithScaledTable(
                             ScaleVmtx(
                                 [f EXCEPT !["hmtx"] = ScaleMetricPairs(@, scale_factor)],
                                 scale_factor),
                             "head", scale_factor),
                         "hhea", scale_factor),
                     "OS/2", scale_factor),
                 "vhea", scale_factor),
             "post", scale_factor)

\* The legacy kern table, value by value.
ScaleKern(kern, scale_factor) ==
    [kern EXCEPT !.kernTables =
        [i \in DOMAIN @ |->
            IF hasattr(@[i], "kernTable")
            THEN [@[i] EXCEPT !.kernTable =
                     [pair \in DOMAIN @ |-> ScaleInt(@[pair], scale_factor)]]
            ELSE @[i]]]

\* if 'kern' in font: ...
ScaleKernTable(f, scale_factor) ==
    IF "kern" \in DOMAIN f THEN [f EXCEPT !["kern"] = ScaleKern(@, scale_factor)] ELSE f

\* if 'GPOS' in font: scale_gpos_values(gpos.table, scale_factor)
ScaleGposTable(f, scale_factor) ==
    IF "GPOS" \in DOMAIN f
    THEN [f EXCEPT !["GPOS"].table = scale_gpos_values(@, scale_factor)]
    ELSE f

RaiseIfGposRaised(f) ==
    IF "GPOS" \in DOMAIN f /\ GposRaised(f["GPOS"].table) THEN Raise ELSE f

\* kern and GPOS.
ScalePositioning(f, scale_factor) ==
    RaiseIfGposRaised(ScaleGposTable(ScaleKernTable(f, scale_factor), scale_factor))

(***************************************************************************)
(* The fonts of the model.                                                 *)
(***************************************************************************)
OldFamily == <<"R", " ", "M">>

NewFamily == <<"R", "x", " ", "M">>

Restrict(r, S) == [x \in S |-> r[x]]

NameRecord(nameID, text, decodable) ==
    [nameID |-> nameID, platformID |-> 3, platEncID |-> 1, langID |-> 1033,
     string |-> text, decodable |-> decodable]

\* Family name, PostScript name, and a full name.
NameTable(family, psname, full, fullDecodable) ==
    [names |-> <<NameRecord(1, family, TRUE), NameRecord(6, psname, TRUE),
                 NameRecord(4, full, fullDecodable)>>]

CFFTable(family, psname, full) ==
    [cff |-> [fontNames |-> <<psname>>,
              topDictIndex |-> <<[FamilyName |-> family, FullName |-> full,
                                  CharStrings |-> [space |-> <<>>, a |-> <<<<0, 0>>, <<3, 7>>>>]]>>]]

PairValue(v1, v2) == [SecondGlyph |-> "a", Value1 |-> v1, Value2 |-> v2]

PairSetOf(v1, v2) == [PairValueRecord |-> <<PairValue(v1, v2), PairValue(v2, v1)>>]

\* The five positioning subtables the scaler knows, with the slots given:
\* value-record slots a, b; anchor slots p, q; the first pair set null or not.
PairPos1(a, b, nullSet) ==
    [Format |-> 1, PairSet |-> <<IF nullSet THEN None ELSE PairSetOf(a, b), PairSetOf(b, a)>>]

PairPos2(a, b) ==
    [Format |-> 2,
     Class1Record |-> <<[Class2Record |-> <<[Value1 |-> a, Value2 |-> b],
                                            [Value1 |-> b, Value2 |-> a]>>]>>]

MarkArrayOf(p, q) ==
    [MarkRecord |-> <<[Class |-> 0, MarkAnchor |-> p], [Class |-> 1, MarkAnchor |-> q]>>]

MarkBasePos(p, q) ==
    [Format |-> 1, MarkArray |-> MarkArrayOf(p, q),
     BaseArray |-> [BaseRecord |-> <<[BaseAnchor |-> <<p, q>>], [BaseAnchor |-> <<q, p>>]>>]]

MarkMarkPos(p, q) ==
    [Format |-> 1, Mark1Array |-> MarkArrayOf(p, q),
     Mark2Array |-> [Mark2Record |-> <<[Mark2Anchor |-> <<q, p>>]>>]]

MarkLigPos(p, q) ==
    [Format |-> 1, MarkArray |-> MarkArrayOf(q, p),
     LigatureArray |->
        [LigatureAttach |-> <<[ComponentRecord |-> <<[LigatureAnchor |-> <<p, q>>],
                                                     [LigatureAnchor |-> <<q, q>>]>>]>>]]

GposTable(a, b, p, q, nullSet) ==
    [LookupList |->
        [Lookup |-> <<[LookupType |-> 2, SubTable |-> <<PairPos1(a, b, nullSet), PairPos2(a, b)>>],
                      [LookupType |-> 4, SubTable |-> <<MarkBasePos(p, q)>>],
                      [LookupType |-> 6, SubTable |-> <<MarkMarkPos(p, q)>>],
                      [LookupType |-> 5, SubTable |-> <<MarkLigPos(p, q)>>]>>]]

OS2Table ==
    [version |-> 4, sTypoAscender |-> 9, sTypoDescender |-> -3, sTypoLineGap |-> 0,
     usWinAscent |-> 11, usWinDescent |-> 3, ySubscriptXSize |-> 5, ySubscriptYSize |-> 5,
     ySubscriptXOffset |-> 0, ySubscriptYOffset |-> 1, ySuperscriptXSize |-> 5,
     ySuperscriptYSize |-> 5, ySuperscriptXOffset |-> 0, ySuperscriptYOffset |-> 4,
     yStrikeoutSize |-> 1, yStrikeoutPosition |-> 3, sxHeight |-> 5, sCapHeight |-> 7,
     xAvgCharWidth |-> 6]

\* An OS/2 table of version 1: the library gives it no sxHeight, no sCapHeight.
OS2TableV1 == [Restrict(OS2Table, DOMAIN OS2Table \ {"sxHeight", "sCapHeight"}) EXCEPT !.version = 1]

\* The tables every font of the model has.
CommonTables ==
    [hmtx |-> [metrics |-> [space |-> <<6, 0>>, a |-> <<6, 0>>, agrave |-> <<6, 1>>]],
     head |-> [unitsPerEm |-> 10, xMin |-> 0, yMin |-> 0, xMax |-> 4, yMax |-> 9],
     hhea |-> [ascent |-> 9, descent |-> -3, lineGap |-> 0, advanceWidthMax |-> 6,
               minLeftSideBearing |-> 0, minRightSideBearing |-> 2, xMaxExtent |-> 4],
     post |-> [underlinePosition |-> -1, underlineThickness |-> 1, isFixedPitch |-> 1],
     name |-> NameTable(OldFamily, <<"R", "M", "-", "B">>, OldFamily \o <<" ", "B">>, TRUE)]

LayoutTables ==
    [vmtx |-> [metrics |-> [space |-> <<12, 0>>, a |-> <<12, 2>>, agrave |-> <<12, 0>>]],
     vhea |-> [ascent |-> 6, descent |-> -6, lineGap |-> 0, advanceHeightMax |-> 12,
               minTopSideBearing |-> 0, minBottomSideBearing |-> 3, yMaxExtent |-> 9],
     kern |-> [kernTables |-> <<[kernTable |-> [p1 |-> -3, p2 |-> 7]], [version |-> 0]>>],
     GPOS |-> [table |-> GposTable([XAdvance |-> -3], None,
                                   [XCoordinate |-> 3, YCoordinate |-> 7], None, TRUE)]]

TTFOutlines == [glyf |-> GlyfTable(<<<<0, 0>>, <<3, 7>>>>, <<1, 2>>)]

\* A TrueType font with every table the scaler looks at.
FontTTF == TTFOutlines @@ CommonTables @@ LayoutTables @@ ("OS/2" :> OS2Table)

\* A CFF font; no vertical metrics, no kern, no GPOS, no OS/2.
FontOTF == [CFF |-> CFFTable(OldFamily, <<"R", "M", "-", "B">>, OldFamily \o <<" ", "B">>)]
               @@ CommonTables

\* A TrueType font whose OS/2 table is of version 1.
FontOS2v1 == TTFOutlines @@ CommonTables @@ ("OS/2" :> OS2TableV1)

\* A font with neither glyf nor CFF (its outlines are in another table).
FontNoOutlines == CommonTables @@ LayoutTables @@ ("OS/2" :> OS2Table)

Fonts == {FontTTF, FontOTF, FontOS2v1, FontNoOutlines}

\* A file the font library cannot open.
Corrupt == [corrupt |-> TRUE]

Missing == [missing |-> TRUE]

File(data) == [data |-> data, writes |-> 0]

(***************************************************************************)
(* main and scale_font: the pipeline.  Init is the state after main has    *)
(* parsed and validated its arguments and listed the font files.           *)
(***************************************************************************)
Path(stem, suffix) == [stem |-> stem, suffix |-> suffix]

Suffixes == {"", "-scaled"}

\* The scale factors of the pipeline runs: the default 1.08, and 1.25.
PipelineScales == {<<27, 25>>, <<5, 4>>}

InputPath == font_files[idx]

\* output_path: font_path with the suffix added to its stem, or font_path.
OutputPath == Path(font_files[idx].stem, args.suffix)

Renaming == args.rename # None

\* The order of the steps of scale_font, saving before the positioning step.
StepAfterSaveEarly(step) ==
    CASE step = "load"        -> IF Renaming THEN "rename" ELSE "outlines"
      [] step = "rename"      -> "outlines"
      [] step = "outlines"    -> "metrics"
      [] step = "metrics"     -> "save"
      [] step = "positioning" -> "return"
      [] step = "save"        -> "positioning"

\* The order of the steps of scale_font.
StepAfter(step) ==
    CASE step = "load"        -> IF Renaming THEN "rename" ELSE "outlines"
      [] step = "rename"      -> "outlines"
      [] step = "outlines"    -> "metrics"
      [] step = "metrics"     -> "positioning"
      [] step = "positioning" -> "save"
      [] step = "save"        -> "return"

\* A driver without the try/except around scale_font.
AfterExceptionAbort(single) == "crashed"

\* Where an exception of scale_font goes: in batch mode to the except
\* clause of the loop, in single-file mode out of main.
AfterException(single) == IF single THEN "crashed" ELSE "except"

Init ==
    /\ \E n \in 1..MaxFiles :
          /\ font_files = [i \in 1..n |-> Path(i, "")]
          /\ \E content \in [1..n -> Fonts \cup {Corrupt}] :
                disk = [p \in {Path(i, x) : i \in 1..n, x \in Suffixes} |->
                           IF p.suffix = "" THEN File(content[p.stem]) ELSE File(Missing)]
          /\ args \in [scale : PipelineScales,
                       suffix : Suffixes,
                       rename : {None, [from |-> OldFamily, to |-> NewFamily]},
                       single : {s \in BOOLEAN : s => n = 1}]
    /\ idx = 1
    /\ pc = "main_loop"
    /\ font = None
    /\ cursor = 0
    /\ failures = <<>>
    /\ phases = <<>>
    /\ orig = None
    /\ calls = <<>>
    /\ outcome = <<>>

\* for font_path in font_files: ... scale_font(...)   (or the one call of
\* single-file mode)
StartFile ==
    /\ pc = "main_loop"
    /\ idx <= Len(font_files)
    /\ pc' = "load"
    /\ font' = None
    /\ orig' = None
    /\ phases' = <<>>
    /\ UNCHANGED <<font_files, disk, args, idx, cursor, failures, calls, outcome>>

\* print("All fonts processed!")
Finish ==
    /\ pc = "main_loop"
    /\ idx > Len(font_files)
    /\ pc' = "exit0"
    /\ UNCHANGED <<font_files, disk, args, idx, font, cursor, failures, phases, orig, calls, outcome>>

\* scale_font raised at the step in progress.
Raising ==
    /\ pc' = AfterException(args.single)
    /\ outcome' = Append(outcome, [file |-> InputPath, result |-> "raised"])
    /\ UNCHANGED <<font_files, disk, args, idx, font, cursor, failures, phases, orig, calls>>

\* The step in progress completed, leaving the font f.
Completing(f, phase) ==
    /\ font' = f
    /\ phases' = Append(phases, phase)
    /\ pc' = StepAfter(pc)
    /\ UNCHANGED <<font_files, disk, args, idx, cursor, failures, calls, outcome>>

\* font = TTFont(input_path)
Load ==
    /\ pc = "load"
    /\ IF disk[InputPath].data \in {Corrupt, Missing}
       THEN Raising
       ELSE /\ orig' = disk[InputPath].data
            /\ Completing(disk[InputPath].data, "Loaded")

\* if rename_from and rename_to: rename_font(font, rename_from, rename_to)
Rename ==
    /\ pc = "rename"
    /\ orig' = orig
    /\ Completing(rename_font(font, args.rename.from, args.rename.to), "Renamed")

Outlines ==
    /\ pc = "outlines"
    /\ IF ScaleOutlines(font, args.scale) = Raise
       THEN Raising
       ELSE orig' = orig /\ Completing(ScaleOutlines(font, args.scale), "OutlinesScaled")

Metrics ==
    /\ pc = "metrics"
    /\ IF ScaleMetrics(font, args.scale) = Raise
       THEN Raising
       ELSE orig' = orig /\ Completing(ScaleMetrics(font, args.scale), "MetricsScaled")

Positioning ==
    /\ pc = "positioning"
    /\ IF ScalePositioning(font, args.scale) = Raise
       THEN Raising
       ELSE orig' = orig /\ Completing(ScalePositioning(font, args.scale), "PositioningScaled")

\* font.save(output_path)
Save ==
    /\ pc = "save"
    /\ disk' = [disk EXCEPT ![OutputPath] = [data |-> font, writes |-> @.writes + 1]]
    /\ phases' = Append(phases, "Saved")
    /\ outcome' = Append(outcome, [file |-> InputPath, result |-> "saved"])
    /\ pc' = StepAfter(pc)
    /\ UNCHANGED <<font_files, args, idx, font, cursor, failures, orig, calls>>

\* scale_font returned: the loop goes on (batch), or main returns (single).
Return ==
    /\ pc = "return"
    /\ pc' = IF args.single THEN "exit0" ELSE "main_loop"
    /\ idx' = idx + 1
    /\ UNCHANGED <<font_files, disk, args, font, cursor, failures, phases, orig, calls, outcome>>

\* except Exception as e: print(f"Error processing {font_path}: {e}"); continue
Except ==
    /\ pc = "except"
    /\ failures' = Append(failures, InputPath)
    /\ idx' = idx + 1
    /\ pc' = "main_loop"
    /\ UNCHANGED <<font_files, disk, args, font, cursor, phases, orig, calls, outcome>>

Next ==
    \/ StartFile
    \/ Load
    \/ Rename
    \/ Outlines
    \/ Metrics
    \/ Positioning
    \/ Save
    \/ Return
    \/ Except
    \/ Finish

Spec == Init /\ [][Next]_vars

(***************************************************************************)
(* Properties of the pipeline (specification Spec).                        *)
(***************************************************************************)
Range(s) == {s[i] : i \in DOMAIN s}

IsPrefix(s, u) == Len(s) <= Len(u) /\ SubSeq(u, 1, Len(s)) = s

Failed == pc \in {"except", "crashed"}

\* Every value of the glyf table of new is a nearest integer to old's, scaled.
GlyfNearest(new, old, s) ==
    \A g \in DOMAIN old :
        /\ "coordinates" \in DOMAIN old[g] =>
              \A i \in DOMAIN old[g].coordinates :
                  /\ IsNearest(new[g].coordinates[i][1], old[g].coordinates[i][1], s)
                  /\ IsNearest(new[g].coordinates[i][2], old[g].coordinates[i][2], s)
        /\ "components" \in DOMAIN old[g] =>
              \A i \in DOMAIN old[g].components :
                  /\ IsNearest(new[g].components[i].x, old[g].components[i].x, s)
                  /\ IsNearest(new[g].components[i].y, old[g].components[i].y, s)
        /\ "xMin" \in DOMAIN old[g] =>
              \A f \in {"xMin", "yMin", "xMax", "yMax"} : IsNearest(new[g][f], old[g][f], s)

MetricPairsNearest(new, old, s) ==
    \A g \in DOMAIN old.metrics :
        /\ IsNearest(new.metrics[g][1], old.metrics[g][1], s)
        /\ IsNearest(new.metrics[g][2], old.metrics[g][2], s)

HeaderNearest(new, old, s) ==
    \A tag \in DOMAIN ScaledFields \cap DOMAIN old :
        \A f \in ScaledFields[tag] \cap DOMAIN old[tag] :
            IsNearest(new[tag][f], old[tag][f], s)

\* C1: once the outlines and the metrics of a file are scaled, every
\* integer rewritten (glyph coordinates, component offsets, glyph bounding
\* boxes, advance/side-bearing pairs, header metrics) is the original times
\* the scale factor rounded to the nearest integer, never its truncation.
C1_ScaledValuesAreRounded ==
    "MetricsScaled" \in Range(phases) =>
        /\ "glyf" \in DOMAIN orig => GlyfNearest(font["glyf"], orig["glyf"], args.scale)
        /\ MetricPairsNearest(font["hmtx"], orig["hmtx"], args.scale)
        /\ "vmtx" \in DOMAIN orig => MetricPairsNearest(font["vmtx"], orig["vmtx"], args.scale)
        /\ HeaderNearest(font, orig, args.scale)

\* The font loaded has a table, among those the metrics step rewrites,
\* without one of the fields the step rewrites.
LacksScaledField(f) ==
    \E tag \in DOMAIN ScaledFields \cap DOMAIN f : ~(ScaledFields[tag] \subseteq DOMAIN f[tag])

\* C3: a font with a scaled metric field absent (x-height or cap-height
\* missing from OS/2, say) is processed without an error; the field is
\* still absent afterwards and every present field is scaled.
C3_AbsentFieldIsSkipped ==
    (orig # None /\ LacksScaledField(orig) /\ ~OutlinesRaise(orig)) =>
        /\ ~Failed
        /\ "MetricsScaled" \in Range(phases) =>
              \A tag \in DOMAIN ScaledFields \cap DOMAIN orig :
                  /\ DOMAIN font[tag] = DOMAIN orig[tag]
                  /\ \A f \in ScaledFields[tag] \cap DOMAIN orig[tag] :
                        font[tag][f] = ScaleInt(orig[tag][f], args.scale)

\* C4: for a font with neither a CFF nor a glyf table the outline step is
\* a no-op and not fatal: scale_font goes on to the later steps.
C4_NoOutlinesIsNotFatal ==
    (orig # None /\ "CFF" \notin DOMAIN orig /\ "glyf" \notin DOMAIN orig) =>
        /\ ~Failed
        /\ "OutlinesScaled" \in Range(phases) => font = orig \/ Renaming

Reports == SelectSeq(outcome, LAMBDA o : o.result = "raised")

\* C5: in batch mode the driver attempts every file in order whatever
\* raises, saves output for exactly the files that did not raise, reports
\* one failure per failing file, and finishes normally.
C5_BatchFailuresAreIsolated ==
    ~args.single =>
        /\ pc # "crashed"
        /\ IsPrefix([i \in DOMAIN outcome |-> outcome[i].file], font_files)
        /\ pc = "exit0" =>
              /\ Len(outcome) = Len(font_files)
              /\ failures = [i \in DOMAIN Reports |-> Reports[i].file]
              /\ \A i \in DOMAIN outcome :
                    disk[Path(outcome[i].file.stem, args.suffix)].writes
                        = IF outcome[i].result = "saved" THEN 1 ELSE 0
              /\ \A i \in DOMAIN outcome :
                    outcome[i].result = "raised" /\ args.suffix # "" =>
                        disk[Path(outcome[i].file.stem, args.suffix)].data = Missing

\* Three files, the second of which cannot be loaded: the first and the
\* third are saved and one failure is reported, for the second.
C5_Witness ==
    /\ pc = "exit0"
    /\ ~args.single
    /\ Len(font_files) = 3
    /\ disk[font_files[2]].data = Corrupt
    /\ failures = <<font_files[2]>>
    /\ disk[Path(1, args.suffix)].writes = 1
    /\ disk[Path(3, args.suffix)].writes = 1

ExpectedPhases ==
    <<"Loaded">> \o (IF Renaming THEN <<"Renamed">> ELSE <<>>)
        \o <<"OutlinesScaled", "MetricsScaled", "PositioningScaled", "Saved">>

InScaleFont == pc \in {"load", "rename", "outlines", "metrics", "positioning", "save"}

\* C10: the steps of scale_font complete in the fixed order Loaded,
\* Renamed (with a rename pair only), OutlinesScaled, MetricsScaled,
\* PositioningScaled, Saved; the file is written only after every scaling
\* step, so a failure at an earlier step leaves the output unwritten and,
\* in place, the original file as it was.
C10_StepsInOrderSaveLast ==
    /\ IsPrefix(phases, ExpectedPhases)
    /\ (InScaleFont \/ Failed) =>
          /\ "Saved" \notin Range(phases)
          /\ disk[OutputPath].writes = 0
          /\ disk[InputPath].writes = 0
          /\ orig # None => disk[InputPath].data = orig
    /\ pc = "return" =>
          /\ phases = ExpectedPhases
          /\ disk[OutputPath] = [data |-> font, writes |-> 1]

\* The first file went through every step and was saved in place; the
\* second failed after some of its steps.
C10_Witness ==
    /\ pc = "except"
    /\ idx = 2
    /\ Renaming
    /\ args.suffix = ""
    /\ outcome[1].result = "saved"
    /\ Len(phases) >= 3

(***************************************************************************)
(* The glyph loop of scale_font on its own (specification SpecGlyph): one  *)
(* glyf table drawn from a bounded set is scaled glyph by glyph, and then  *)
(* scaled again, by a second run of the tool, with the inverse factor.     *)
(***************************************************************************)
\* The y coordinates tried.
YVals == {-MaxCoord, 1}

Points == {<<x, y>> : x \in -MaxCoord..MaxCoord, y \in YVals}

ComponentArgs(s) == [scale |-> s, suffix |-> "", rename |-> None, single |-> TRUE]

\* The variables of main's loop, which the component specifications leave alone.
DriverIdle ==
    /\ font_files = <<>>
    /\ disk = <<>>
    /\ idx = 0
    /\ failures = <<>>
    /\ phases = <<>>
    /\ outcome = <<>>

InitGlyph ==
    /\ \E p1 \in Points, p2 \in Points, off \in Points :
          font = [glyf |-> GlyfTable(<<p1, p2>>, off)]
    /\ orig = font
    /\ \E s \in InvertibleScales : args = ComponentArgs(s)
    /\ pc = "glyphs"
    /\ cursor = 1
    /\ calls = <<>>
    /\ DriverIdle

\* One iteration of "for glyph_name in glyf.keys()".
ScaleNextGlyph ==
    /\ pc \in {"glyphs", "glyphs_back"}
    /\ cursor <= Len(GlyphOrder)
    /\ font' = [font EXCEPT !["glyf"][GlyphOrder[cursor]] =
                   IF @.numberOfContours # 0 THEN scale_glyph_ttf(@, args.scale) ELSE @]
    /\ cursor' = cursor + 1
    /\ UNCHANGED <<font_files, disk, args, idx, pc, failures, phases, orig, calls, outcome>>

\* The loop is over.
GlyphsDone ==
    /\ pc \in {"glyphs", "glyphs_back"}
    /\ cursor > Len(GlyphOrder)
    /\ pc' = IF pc = "glyphs" THEN "scaled" ELSE "restored"
    /\ UNCHANGED <<font_files, disk, args, idx, font, cursor, failures, phases, orig, calls, outcome>>

\* The scaled glyphs are scaled again, with --scale 1/s.
ScaleBack ==
    /\ pc = "scaled"
    /\ args' = [args EXCEPT !.scale = Inverse(@)]
    /\ pc' = "glyphs_back"
    /\ cursor' = 1
    /\ UNCHANGED <<font_files, disk, idx, font, failures, phases, orig, calls, outcome>>

NextGlyph == ScaleNextGlyph \/ GlyphsDone \/ ScaleBack

SpecGlyph == InitGlyph /\ [][NextGlyph]_vars

\* Every point of the simple glyphs is within one unit, in x and in y, of
\* the point it was.
PointsWithinOne ==
    \A g \in DOMAIN orig["glyf"] :
        "coordinates" \in DOMAIN orig["glyf"][g] =>
            \A i \in DOMAIN orig["glyf"][g].coordinates :
                /\ Abs(font["glyf"][g].coordinates[i][1] - orig["glyf"][g].coordinates[i][1]) <= 1
                /\ Abs(font["glyf"][g].coordinates[i][2] - orig["glyf"][g].coordinates[i][2]) <= 1

\* C2 as claimed: for every scale factor s > 0, s < 1 included, scaling a
\* glyph by s and then by 1/s leaves every point within one unit, in x and
\* in y, of the original.
C2_RoundTripAnyScale == pc = "restored" => PointsWithinOne

\* C2 amended: for every scale factor s >= 1, scaling a glyph by s and then
\* by 1/s leaves every point within one unit, in x and in y, of the original.
\* (At "restored" args.scale is 1/s.)
C2_RoundTripScaleUp ==
    (pc = "restored" /\ AtLeastOne(Inverse(args.scale))) => PointsWithinOne

\* A glyph scaled by 1.25 and back whose point (3, 1) came back as (2, 0).
C2_Witness ==
    /\ pc = "restored"
    /\ args.scale = <<4, 5>>
    /\ orig["glyf"]["a"].coordinates[1] = <<3, 1>>
    /\ font["glyf"]["a"].coordinates[1] = <<2, 0>>

\* C9: after the glyphs are scaled every non-empty glyph's stored bounding
\* box is consistent with its scaled outline: xMax >= xMin and yMax >= yMin;
\* a simple glyph's box is the minimum and maximum of its scaled
\* coordinates; a composite's box is the box assembled from its scaled
\* components placed at the scaled offsets.
C9_BBoxMatchesScaledOutline ==
    pc = "scaled" =>
        \A g \in DOMAIN font["glyf"] :
            font["glyf"][g].numberOfContours # 0 =>
                /\ font["glyf"][g].xMax >= font["glyf"][g].xMin
                /\ font["glyf"][g].yMax >= font["glyf"][g].yMin
                /\ "coordinates" \in DOMAIN font["glyf"][g] =>
                      BBox(font["glyf"][g]) = CoordBounds(font["glyf"][g].coordinates)
                /\ "components" \in DOMAIN font["glyf"][g] =>
                      BBox(font["glyf"][g])
                          = ComponentBounds(font["glyf"], font["glyf"][g].components)

(***************************************************************************)
(* rename_font on its own (specification SpecRename): the loop over the    *)
(* name records, one record a step, then the CFF block.                    *)
(***************************************************************************)
\* The strings over alphabet of length at most n.
StringsUpTo(alphabet, n) == UNION {[1..k -> alphabet] : k \in 0..n}

\* Family and full names: any text.  PostScript names have no spaces.
Texts == StringsUpTo({"R", "M", " "}, MaxText)

PSTexts == StringsUpTo({"R", "M"}, MaxText)

InitRename ==
    /\ \E family \in Texts, psname \in PSTexts, decodable \in BOOLEAN :
          font = [name |-> NameTable(family, psname, OldFamily, decodable),
                  CFF |-> CFFTable(family, psname, family)]
    /\ orig = font
    /\ args = [ComponentArgs(<<1, 1>>) EXCEPT !.rename = [from |-> OldFamily, to |-> NewFamily]]
    /\ pc = "names"
    /\ cursor = 1
    /\ calls = <<>>
    /\ DriverIdle

\* One iteration of "for record in name_table.names".
RenameNextRecord ==
    /\ pc = "names"
    /\ cursor <= Len(font["name"].names)
    /\ font' = [font EXCEPT !["name"].names =
                   rename_record(@, @[cursor], args.rename.from, args.rename.to)]
    /\ calls' = Append(calls, SetNameCalls(font["name"].names[cursor], args.rename.from))
    /\ cursor' = cursor + 1
    /\ UNCHANGED <<font_files, disk, args, idx, pc, failures, phases, orig, outcome>>

\* The loop is over.
RecordsDone ==
    /\ pc = "names"
    /\ cursor > Len(font["name"].names)
    /\ pc' = "cff"
    /\ UNCHANGED <<font_files, disk, args, idx, font, cursor, failures, phases, orig, calls, outcome>>

\* if 'CFF ' in font: ...
RenameCFF ==
    /\ pc = "cff"
    /\ font' = RenameCFFTable(font, args.rename.from, args.rename.to)
    /\ pc' = "renamed"
    /\ UNCHANGED <<font_files, disk, args, idx, cursor, failures, phases, orig, calls, outcome>>

NextRename == RenameNextRecord \/ RecordsDone \/ RenameCFF

SpecRename == InitRename /\ [][NextRename]_vars

OldNoSpace == StripSpaces(OldFamily)

NewNoSpace == StripSpaces(NewFamily)

\* What the substring rule makes of a text.
Renamed(text) ==
    IF Contains(text, OldFamily)
    THEN Replace(text, OldFamily, NewFamily)
    ELSE IF Contains(text, OldNoSpace)
    THEN Replace(text, OldNoSpace, NewNoSpace)
    ELSE text

CFFNameFields(f) ==
    <<f["CFF"].cff.topDictIndex[1].FamilyName, f["CFF"].cff.topDictIndex[1].FullName>>
        \o f["CFF"].cff.fontNames

\* C7: each CFF name field (the font-name list, FamilyName, FullName) is
\* updated with the substring rule of the name records: the spaced old name
\* replaced by the new name, else the space-stripped old name replaced by
\* the space-stripped new name.
C7_CFFFieldsFollowTheRule ==
    pc = "renamed" =>
        CFFNameFields(font) = [i \in DOMAIN CFFNameFields(orig) |-> Renamed(CFFNameFields(orig)[i])]

(***************************************************************************)
(* scale_gpos_values on its own (specification SpecGpos): the positioning  *)
(* table is scaled one subtable a step, in the order of the two loops.     *)
(***************************************************************************)
\* What a value-record slot may hold.
ValueSlots ==
    {None}
        \cup {[XAdvance |-> v] : v \in -MaxCoord..MaxCoord}
        \cup {[XPlacement |-> v, YPlacement |-> -v, XAdvance |-> 0, YAdvance |-> v + 1] :
                 v \in -MaxCoord..MaxCoord}

\* What an anchor slot may hold.
AnchorSlots == {None} \cup {[XCoordinate |-> pt[1], YCoordinate |-> pt[2]] : pt \in Points}

RECURSIVE SubtablesFrom(_, _)
\* The positions <<lookup, subtable>> in the order the loops visit them.
SubtablesFrom(lookups, l) ==
    IF l > Len(lookups)
    THEN <<>>
    ELSE [k \in 1..Len(lookups[l].SubTable) |-> <<l, k>>] \o SubtablesFrom(lookups, l + 1)

Visits(gpos_table) ==
    IF ~hasattr(gpos_table, "LookupList") \/ gpos_table.LookupList = None
    THEN <<>>
    ELSE SubtablesFrom(gpos_table.LookupList.Lookup, 1)

\* The scale factors tried on the positioning table.
GposScales == {<<27, 25>>, <<5, 4>>, <<2, 1>>, <<1, 2>>}

SubtableAt(gpos_table, at) == gpos_table.LookupList.Lookup[at[1]].SubTable[at[2]]

InitGpos ==
    /\ \E a \in ValueSlots, b \in {None, [XAdvance |-> MaxCoord]},
          p \in AnchorSlots, q \in {None, [XCoordinate |-> 1, YCoordinate |-> -MaxCoord]},
          nullSet \in BOOLEAN :
          \/ font = [GPOS |-> [table |-> GposTable(a, b, p, q, nullSet)]]
          \/ font = [GPOS |-> [table |-> [LookupList |-> None]]]
    /\ orig = font
    /\ \E s \in GposScales : args = ComponentArgs(s)
    /\ pc = "gpos"
    /\ cursor = 1
    /\ calls = <<>>
    /\ DriverIdle

\* One call of scale_gpos_subtable from the loops of scale_gpos_values.
ScaleNextSubtable ==
    /\ pc = "gpos"
    /\ cursor <= Len(Visits(font["GPOS"].table))
    /\ LET at == Visits(font["GPOS"].table)[cursor]
           scaled == scale_gpos_subtable(SubtableAt(font["GPOS"].table, at), args.scale)
       IN  /\ font' = [font EXCEPT
                          !["GPOS"].table.LookupList.Lookup[at[1]].SubTable[at[2]] = scaled]
           /\ pc' = IF SubtableRaised(scaled) THEN "raised" ELSE pc
    /\ cursor' = cursor + 1
    /\ UNCHANGED <<font_files, disk, args, idx, failures, phases, orig, calls, outcome>>

\* scale_gpos_values returns: there is no lookup list, or the loops are over.
GposDone ==
    /\ pc = "gpos"
    /\ cursor > Len(Visits(font["GPOS"].table))
    /\ pc' = "positioned"
    /\ UNCHANGED <<font_files, disk, args, idx, font, cursor, failures, phases, orig, calls, outcome>>

NextGpos == ScaleNextSubtable \/ GposDone

SpecGpos == InitGpos /\ [][NextGpos]_vars

\* A slot of now is null where was is, and else holds was's fields, scaled.
SlotScaled(now, was, s) ==
    IF was = None
    THEN now = None
    ELSE /\ now # None
         /\ DOMAIN now = DOMAIN was
         /\ \A f \in DOMAIN was : now[f] = ScaleInt(was[f], s)

SlotsScaled(now, was, s) ==
    /\ DOMAIN now = DOMAIN was
    /\ \A i \in DOMAIN was : SlotScaled(now[i], was[i], s)

ValuePairsScaled(now, was, s) ==
    /\ DOMAIN now = DOMAIN was
    /\ \A j \in DOMAIN was :
          /\ DOMAIN now[j] = DOMAIN was[j]
          /\ \A f \in DOMAIN was[j] \ {"Value1", "Value2"} : now[j][f] = was[j][f]
          /\ SlotScaled(now[j].Value1, was[j].Value1, s)
          /\ SlotScaled(now[j].Value2, was[j].Value2, s)

\* The attributes of a subtable that scale_gpos_subtable walks.
WalkedAttributes ==
    {"SinglePos", "PairSet", "Class1Record", "BaseArray", "MarkArray", "Mark2Array",
     "LigatureArray"}

\* Subtable now is subtable was with every slot the scaler reaches scaled,
\* every null slot null, and the same records in the same order.
SubtableScaled(now, was, s) ==
    /\ DOMAIN now = DOMAIN was
    /\ \A f \in DOMAIN was \ WalkedAttributes : now[f] = was[f]
    /\ "PairSet" \in DOMAIN was =>
          /\ DOMAIN now.PairSet = DOMAIN was.PairSet
          /\ \A i \in DOMAIN was.PairSet :
                IF was.PairSet[i] = None
                THEN now.PairSet[i] = None
                ELSE /\ now.PairSet[i] # None
                     /\ DOMAIN now.PairSet[i] = {"PairValueRecord"}
                     /\ ValuePairsScaled(now.PairSet[i].PairValueRecord,
                                         was.PairSet[i].PairValueRecord, s)
    /\ "Class1Record" \in DOMAIN was =>
          /\ DOMAIN now.Class1Record = DOMAIN was.Class1Record
          /\ \A i \in DOMAIN was.Class1Record :
                ValuePairsScaled(now.Class1Record[i].Class2Record,
                                 was.Class1Record[i].Class2Record, s)
    /\ "BaseArray" \in DOMAIN was =>
          /\ DOMAIN now.BaseArray.BaseRecord = DOMAIN was.BaseArray.BaseRecord
          /\ \A i \in DOMAIN was.BaseArray.BaseRecord :
                SlotsScaled(now.BaseArray.BaseRecord[i].BaseAnchor,
                            was.BaseArray.BaseRecord[i].BaseAnchor, s)
    /\ "MarkArray" \in DOMAIN was =>
          /\ DOMAIN now.MarkArray.MarkRecord = DOMAIN was.MarkArray.MarkRecord
          /\ \A i \in DOMAIN was.MarkArray.MarkRecord :
                /\ now.MarkArray.MarkRecord[i].Class = was.MarkArray.MarkRecord[i].Class
                /\ SlotScaled(now.MarkArray.MarkRecord[i].MarkAnchor,
                              was.MarkArray.MarkRecord[i].MarkAnchor, s)
    /\ "Mark2Array" \in DOMAIN was =>
          /\ DOMAIN now.Mark2Array.Mark2Record = DOMAIN was.Mark2Array.Mark2Record
          /\ \A i \in DOMAIN was.Mark2Array.Mark2Record :
                SlotsScaled(now.Mark2Array.Mark2Record[i].Mark2Anchor,
                            was.Mark2Array.Mark2Record[i].Mark2Anchor, s)
    /\ "LigatureArray" \in DOMAIN was =>
          /\ DOMAIN now.LigatureArray.LigatureAttach = DOMAIN was.LigatureArray.LigatureAttach
          /\ \A i \in DOMAIN was.LigatureArray.LigatureAttach :
                /\ DOMAIN now.LigatureArray.LigatureAttach[i].ComponentRecord
                      = DOMAIN was.LigatureArray.LigatureAttach[i].ComponentRecord
                /\ \A j \in DOMAIN was.LigatureArray.LigatureAttach[i].ComponentRecord :
                      SlotsScaled(
                          now.LigatureArray.LigatureAttach[i].ComponentRecord[j].LigatureAnchor,
                          was.LigatureArray.LigatureAttach[i].ComponentRecord[j].LigatureAnchor,
                          s)

\* C8: scaling a positioning table with null pair-set slots, null value
\* records or null anchor slots never raises; every null entry is still
\* null, every value record and anchor reached has its numeric fields
\* scaled (by the scaler's own integer conversion), and the lookups,
\* subtables, records and slots are as many as before, in the same order.
C8_NullsSkippedShapeKept ==
    LET visits == Visits(orig["GPOS"].table)
    IN  /\ pc # "raised"
        /\ Visits(font["GPOS"].table) = visits
        /\ \A i \in DOMAIN visits :
              LET was == SubtableAt(orig["GPOS"].table, visits[i])
                  now == SubtableAt(font["GPOS"].table, visits[i])
              IN  /\ IF i >= cursor THEN now = was ELSE SubtableScaled(now, was, args.scale)
                  /\ font["GPOS"].table.LookupList.Lookup[visits[i][1]].LookupType
                        = orig["GPOS"].table.LookupList.Lookup[visits[i][1]].LookupType

\* A table scaled by 2 whose first pair set and second base anchor are
\* null, and whose first base anchor (3, 1) is now (6, 2).
C8_Witness ==
    /\ pc = "positioned"
    /\ args.scale = <<2, 1>>
    /\ orig["GPOS"].table.LookupList # None
    /\ font["GPOS"].table.LookupList.Lookup[1].SubTable[1].PairSet[1] = None
    /\ orig["GPOS"].table.LookupList.Lookup[2].SubTable[1].BaseArray.BaseRecord[1].BaseAnchor
          = <<[XCoordinate |-> 3, YCoordinate |-> 1], None>>
    /\ font["GPOS"].table.LookupList.Lookup[2].SubTable[1].BaseArray.BaseRecord[1].BaseAnchor
          = <<[XCoordinate |-> 6, YCoordinate |-> 2], None>>

====
